---- MODULE Spec2Model ----
(***************************************************************************)
(* Model of mdpls (src/src/asd.js): a language server that tracks the      *)
(* focused markdown document, renders it with markdown-it and pushes the   *)
(* rendering over a WebSocket to browser viewers, which patch their DOM    *)
(* with morphdom and upgrade graphviz code blocks to SVG with viz.js.      *)
(*                                                                         *)
(* Spec      the server: the document map, currentFocus, wss.clients and   *)
(*           the handlers onDidOpen / onDidChangeContent / onDidClose /    *)
(*           wss.on("connection").                                         *)
(* ViewSpec  one viewer page: ws.onmessage (morphdom + graphviz loop) and  *)
(*           the completions of the renders it requested.                  *)
(* UpgradeSpec  ViewSpec restricted to renders that fulfil.                *)
(* ReconSpec the reconciler alone, fed pages with open / closed elements.  *)
(* MessageSpec  the page fed whole messages (any action, any uri).          *)
(* PipeSpec  the server and one viewer page joined by the viewer's socket. *)
(***************************************************************************)
EXTENDS Integers, Sequences, FiniteSets, Bags, TLC

VARIABLES
    documents,     \* TextDocuments map: uri -> text, NoDoc when not open
    currentFocus,  \* let currentFocus = ""
    clients,       \* wss.clients: viewer -> readyState ("NONE" = not in the set)
    out,           \* viewer -> messages the last handler run put on its socket
    ev,            \* the last handler run: kind, uri / viewer, whether it threw
    lastWrite,     \* history: uri of the most recent open-or-change event
    tree,          \* children of #mdText in the viewer page (live DOM)
    received,      \* the viewer's global `received` (text of the last message)
    pending,       \* bag of viz.renderSVGElement promises not yet settled
    root,          \* the #mdText element itself: its attributes, whether attached
    pass,          \* what the last viewer callback did to the page
    wire,          \* messages sent to the observed viewer and not yet handled by its page
    handled        \* history: uris of the last two messages the page handled

serverVars == <<documents, currentFocus, clients, out, ev, lastWrite>>
viewVars   == <<tree, received, pending, pass, root>>
vars       == <<documents, currentFocus, clients, out, ev, lastWrite,
                tree, received, pending, pass, root, wire, handled>>

----------------------------------------------------------------------------
(* Bounds and input sets                                                    *)

MaxBlocks  == 2     \* blocks in a markdown text reconciled by the viewer
MaxPending == 2     \* renders in flight at once in the viewer
MaxWire    == 2     \* messages in flight to the observed viewer

URIs    == {"A", "B"}
Viewers == {"v1", "v2"}
NoDoc   == "undefined"        \* documents.get(uri) of a uri that is not open
NoFocus == ""                 \* initial value of currentFocus

----------------------------------------------------------------------------
(* Markdown texts and their rendering                                       *)

Paragraph(s) == [kind |-> "paragraph", info |-> "", body |-> s]
Fence(i, s)  == [kind |-> "fence", info |-> i, body |-> s]

Blocks == {Paragraph("a"), Fence("graphviz", "g1"), Fence("graphviz", "g2")}

\* HTML is a sequence of tokens: open tags, close tags and character data.
OpenTag(tag, attrs) == [t |-> "open", tag |-> tag, attrs |-> attrs, value |-> ""]
CloseTag(tag)       == [t |-> "close", tag |-> tag, attrs |-> {}, value |-> ""]
Chars(s)            == [t |-> "text", tag |-> "#text", attrs |-> {}, value |-> s]

\* markdown-it renderer rules for one block token.
renderBlock(b) ==
    IF b.kind = "paragraph"
    THEN <<OpenTag("P", {}), Chars(b.body), CloseTag("P"), Chars("\n")>>
    ELSE <<OpenTag("PRE", {}),
           OpenTag("CODE", IF b.info = "" THEN {}
                           ELSE {<<"class", "language-" \o b.info>>}),
           Chars(b.body \o "\n"), CloseTag("CODE"), CloseTag("PRE"), Chars("\n")>>

\* md.render(text): the concatenation of the blocks' renderings.
RECURSIVE mdRender(_)
mdRender(text) ==
    IF text = <<>> THEN <<>>
    ELSE renderBlock(Head(text)) \o mdRender(Tail(text))

\* Texts the editor sends in the server specification.
DocTexts == {<<Paragraph("a")>>,
             <<Fence("graphviz", "g1")>>,
             <<Paragraph("a"), Fence("graphviz", "g2")>>}

----------------------------------------------------------------------------
(* Viewer: DOM nodes, the HTML parser and morphdom                          *)

\* A DOM node.  Text nodes have tag "#text" and carry value; elements carry
\* attrs (a set of <<name, value>> pairs) and kids.  id is the node's
\* identity (0 before the node has been given one).
Node(id, tag, attrs, value, kids) ==
    [id |-> id, tag |-> tag, attrs |-> attrs, value |-> value, kids |-> kids]

IsElement(n) == n.tag # "#text"

\* Close the innermost open element: it becomes the last child of the one below.
popElement(stack) ==
    LET n     == Len(stack)
        below == stack[n - 1]
    IN  SubSeq(stack, 1, n - 2) \o <<[below EXCEPT !.kids = Append(@, stack[n])]>>

\* The HTML fragment parser: a stack of open elements over a fragment root;
\* elements still open at the end of input are closed there.
RECURSIVE parseHTML(_, _)
parseHTML(tokens, stack) ==
    IF tokens = <<>>
    THEN IF Len(stack) = 1 THEN stack[1].kids ELSE parseHTML(tokens, popElement(stack))
    ELSE LET tok == Head(tokens)
             n   == Len(stack)
         IN  CASE tok.t = "open" ->
                    parseHTML(Tail(tokens), Append(stack, Node(0, tok.tag, tok.attrs, "", <<>>)))
               [] tok.t = "text" ->
                    parseHTML(Tail(tokens),
                              [stack EXCEPT ![n].kids = Append(@, Node(0, "#text", {}, tok.value, <<>>))])
               [] OTHER ->
                    IF n > 1 /\ stack[n].tag = tok.tag
                    THEN parseHTML(Tail(tokens), popElement(stack))
                    ELSE parseHTML(Tail(tokens), stack)

\* morphdom's toElement(str): the first node of the parsed fragment.
toElement(tokens) == parseHTML(tokens, <<Node(0, "#fragment", {}, "", <<>>)>>)[1]

\* "<div>" + received.text + "<div>"
wrap(html) == <<OpenTag("DIV", {})>> \o html \o <<OpenTag("DIV", {})>>

RECURSIVE size(_)
size(n) ==
    LET RECURSIVE sum(_)
        sum(ks) == IF ks = <<>> THEN 0 ELSE size(Head(ks)) + sum(Tail(ks))
    IN  1 + sum(n.kids)

\* Parsing creates the nodes: give the nodes of a forest the identities
\* k, k+1, ... in document order.
RECURSIVE create(_, _)
create(ks, k) ==
    IF ks = <<>> THEN <<>>
    ELSE LET n == Head(ks)
         IN  <<[n EXCEPT !.id = k, !.kids = create(n.kids, k + 1)]>>
             \o create(Tail(ks), k + size(n))

RECURSIVE docOrder(_)
docOrder(ks) ==
    IF ks = <<>> THEN <<>>
    ELSE <<Head(ks).id>> \o docOrder(Head(ks).kids) \o docOrder(Tail(ks))

\* The nodes of a forest in document order.
RECURSIVE nodesOf(_)
nodesOf(ks) ==
    IF ks = <<>> THEN <<>>
    ELSE <<Head(ks)>> \o nodesOf(Head(ks).kids) \o nodesOf(Tail(ks))

\* The live tree holds the identities 1 .. nodeCount (see renameTree), so
\* the first identity not in use is the next one.
nodeCount(t) == Len(docOrder(t))
firstFree(t) == nodeCount(t) + 1

hasAttribute(el, name) == \E a \in el.attrs : a[1] = name

setAttribute(el, name, v) ==
    [el EXCEPT !.attrs = {a \in @ : a[1] # name} \cup {<<name, v>>}]

\* Node.isEqualNode: same type, name, attributes, data and equal children.
RECURSIVE isEqualNode(_, _)
isEqualNode(a, b) ==
    /\ a.tag = b.tag
    /\ a.attrs = b.attrs
    /\ a.value = b.value
    /\ Len(a.kids) = Len(b.kids)
    /\ \A i \in DOMAIN a.kids : isEqualNode(a.kids[i], b.kids[i])

\* Number of setAttribute / removeAttribute calls morphAttrs makes.
morphAttrsCalls(fromAttrs, toAttrs) ==
    Cardinality(toAttrs \ fromAttrs)
    + Cardinality({a \in fromAttrs : \A b \in toAttrs : b[1] # a[1]})

\* onNodeAdded runs for an added node and each of its descendants; only
\* element nodes have scrollIntoView.
RECURSIVE onNodeAdded(_)

\* Variant: the callback runs for the added node only, not its descendants.
onNodeAddedShallow(n) == IF IsElement(n) THEN <<n.id>> ELSE <<>>

onNodeAdded(n) ==
    LET RECURSIVE each(_)
        each(ks) == IF ks = <<>> THEN <<>> ELSE onNodeAdded(Head(ks)) \o each(Tail(ks))
    IN  (IF IsElement(n) THEN <<n.id>> ELSE <<>>) \o each(n.kids)

\* morphdom with getNodeKey: () => null.  Both return the morphed node(s),
\* the ids scrollIntoView was called on, and the number of DOM mutations.
RECURSIVE morphEl(_, _), morphChildren(_, _)

\* Variant: onBeforeElUpdated without the open override.
morphElForgetsOpen(fromEl, toEl) ==
    IF isEqualNode(fromEl, toEl)
    THEN [node |-> fromEl, scrolled |-> <<>>, muts |-> 0]
    ELSE LET mc == morphChildren(fromEl.kids, toEl.kids)
         IN  [node     |-> [fromEl EXCEPT !.attrs = toEl.attrs, !.kids = mc.kids],
              scrolled |-> <<fromEl.id>> \o mc.scrolled,
              muts     |-> morphAttrsCalls(fromEl.attrs, toEl.attrs) + mc.muts]

\* onBeforeElUpdated, then morphAttrs and morphChildren unless it returned false.
morphEl(fromEl, toEl) ==
    LET to2 == IF hasAttribute(fromEl, "open") THEN setAttribute(toEl, "open", "true") ELSE toEl
    IN  IF isEqualNode(fromEl, to2)
        THEN [node |-> fromEl, scrolled |-> <<>>, muts |-> 0]
        ELSE LET mc == morphChildren(fromEl.kids, to2.kids)
             IN  [node     |-> [fromEl EXCEPT !.attrs = to2.attrs, !.kids = mc.kids],
                  scrolled |-> <<fromEl.id>> \o mc.scrolled,
                  muts     |-> morphAttrsCalls(fromEl.attrs, to2.attrs) + mc.muts]

\* The two-pointer walk over the children: a "to" child is matched with the
\* next "from" child of the same node type and name; "from" children passed
\* over are removed; "to" children left without a match are appended.
morphChildren(from, to) ==
    IF to = <<>>
    THEN [kids |-> <<>>, scrolled |-> <<>>, muts |-> Len(from)]
    ELSE IF from = <<>>
    THEN LET rest == morphChildren(<<>>, Tail(to))
         IN  [kids     |-> <<Head(to)>> \o rest.kids,
              scrolled |-> onNodeAdded(Head(to)) \o rest.scrolled,
              muts     |-> 1 + rest.muts]
    ELSE LET f == Head(from)
             t == Head(to)
         IN  IF IsElement(f) /\ IsElement(t) /\ f.tag = t.tag
             THEN LET m    == morphEl(f, t)
                      rest == morphChildren(Tail(from), Tail(to))
                  IN  [kids     |-> <<m.node>> \o rest.kids,
                       scrolled |-> m.scrolled \o rest.scrolled,
                       muts     |-> m.muts + rest.muts]
             ELSE IF ~IsElement(f) /\ ~IsElement(t)
             THEN LET rest == morphChildren(Tail(from), Tail(to))
                  IN  [kids     |-> <<[f EXCEPT !.value = t.value]>> \o rest.kids,
                       scrolled |-> rest.scrolled,
                       muts     |-> (IF f.value # t.value THEN 1 ELSE 0) + rest.muts]
             ELSE LET rest == morphChildren(Tail(from), to)
                  IN  [rest EXCEPT !.muts = @ + 1]

RECURSIVE seqsUpTo(_, _)
seqsUpTo(S, n) ==
    IF n = 0 THEN {<<>>}
    ELSE LET shorter == seqsUpTo(S, n - 1)
         IN  shorter \cup {Append(q, x) : q \in shorter, x \in S}

\* The renderings a viewer can be sent.
ViewTexts == seqsUpTo(Blocks, MaxBlocks)
Htmls     == {mdRender(t) : t \in ViewTexts}

\* Renderings with elements the reader can open and close: received.text is
\* whatever HTML the message carries.
Details(open) ==
    <<OpenTag("DETAILS", IF open THEN {<<"open", "">>} ELSE {}),
      OpenTag("SUMMARY", {}), Chars("s"), CloseTag("SUMMARY"),
      CloseTag("DETAILS"), Chars("\n")>>

Blockquote(inner) ==
    <<OpenTag("BLOCKQUOTE", {}), Chars("\n")>> \o inner
    \o <<CloseTag("BLOCKQUOTE"), Chars("\n")>>

ReconItems == {renderBlock(Paragraph("a")), Details(FALSE), Details(TRUE),
               Blockquote(Details(FALSE)), Blockquote(Details(TRUE))}

RECURSIVE concat(_)
concat(q) == IF q = <<>> THEN <<>> ELSE Head(q) \o concat(Tail(q))

\* Pages of at most two such items.
ReconPages == {<<>>} \cup {<<x>> : x \in ReconItems}
              \cup {<<x, y>> : x \in ReconItems, y \in ReconItems}

ReconHtmls == {concat(q) : q \in ReconPages}

parsedT == [h \in Htmls \cup ReconHtmls |-> toElement(wrap(h)).kids]

\* morphdom(markdownBody, "<div>" + received.text + "<div>", {childrenOnly: true, ...})
morphdom(t, html) ==
    morphChildren(t, create(parsedT[html], firstFree(t)))

----------------------------------------------------------------------------
(* Viewer: the graphviz upgrade loop                                        *)

RECURSIVE textContent(_)
textContent(n) ==
    LET RECURSIVE cat(_)
        cat(ks) == IF ks = <<>> THEN "" ELSE textContent(Head(ks)) \o cat(Tail(ks))
    IN  IF IsElement(n) THEN cat(n.kids) ELSE n.value

\* markdownBody.getElementsByClassName("language-graphviz"), in document order.
RECURSIVE getElementsByClassName(_, _)
getElementsByClassName(ks, cls) ==
    IF ks = <<>> THEN <<>>
    ELSE (IF <<"class", cls>> \in Head(ks).attrs THEN <<Head(ks)>> ELSE <<>>)
         \o getElementsByClassName(Head(ks).kids, cls)
         \o getElementsByClassName(Tail(ks), cls)

RECURSIVE requestAll(_, _)

\* Variant: an element with a render in flight is not requested again.
RECURSIVE requestUnlessInFlight(_, _)
requestUnlessInFlight(els, p) ==
    IF els = <<>> THEN p
    ELSE LET q == [el |-> Head(els).id, src |-> textContent(Head(els))]
         IN  requestUnlessInFlight(Tail(els),
                                   IF \E x \in BagToSet(p) : x.el = q.el THEN p
                                   ELSE p (+) SetToBag({q}))

\* Variant: the loop ends after its first element.
requestFirstOnly(els, p) ==
    IF els = <<>> THEN p
    ELSE p (+) SetToBag({[el |-> Head(els).id, src |-> textContent(Head(els))]})

\* One viz.renderSVGElement(element.textContent) per element of the collection.
requestAll(els, p) ==
    IF els = <<>> THEN p
    ELSE requestAll(Tail(els),
                    p (+) SetToBag({[el |-> Head(els).id, src |-> textContent(Head(els))]}))

RECURSIVE replaceParentOf(_, _, _), replaceElementItself(_, _, _)

\* Variant: element.replaceWith(newEl), which leaves the PRE in place.
replaceElementItself(ks, el, newEl) ==
    IF ks = <<>> THEN <<>>
    ELSE LET n == Head(ks)
         IN  (IF n.id = el
              THEN <<newEl>>
              ELSE <<[n EXCEPT !.kids = replaceElementItself(@, el, newEl)]>>)
             \o replaceElementItself(Tail(ks), el, newEl)

\* element.parentNode.replaceWith(newEl) for an element that is in the live
\* tree below a child of #mdText (code blocks sit inside PRE).  When the
\* element's PRE is no longer in the document, replaceWith does nothing.
replaceParentOf(ks, el, newEl) ==
    IF ks = <<>> THEN <<>>
    ELSE LET n == Head(ks)
         IN  (IF \E i \in DOMAIN n.kids : n.kids[i].id = el
              THEN <<newEl>>
              ELSE <<[n EXCEPT !.kids = replaceParentOf(@, el, newEl)]>>)
             \o replaceParentOf(Tail(ks), el, newEl)

\* Node identities are opaque references, so the page is kept up to a
\* renaming of them: after each callback the nodes of the live tree are
\* renamed to their document-order index, and a captured element that is no
\* longer in the document (it can never return) to Detached.
Detached == 0

renamed(order, id) ==
    IF \E i \in DOMAIN order : order[i] = id
    THEN CHOOSE i \in DOMAIN order : order[i] = id
    ELSE Detached

renameTree(t) == create(t, 1)

RECURSIVE renameBag(_, _, _)
renameBag(S, p, order) ==
    IF S = {} THEN EmptyBag
    ELSE LET r == CHOOSE x \in S : TRUE
             q == [el |-> renamed(order, r.el), src |-> r.src]
         IN  [x \in {q} |-> p[r]] (+) renameBag(S \ {r}, p, order)

renamePending(p, t) == renameBag(BagToSet(p), p, docOrder(t))

\* What a callback reports when it settles no render.
NoRequest == [el |-> Detached, src |-> ""]

\* <div id="mdText" class="markdown-body"> and its one child, the line break
\* before </div>.
InitialRoot == [attrs |-> {<<"id", "mdText">>, <<"class", "markdown-body">>},
                attached |-> TRUE]
InitialTree == <<Node(1, "#text", {}, "\n", <<>>)>>

\* document.querySelector('#mdText') finds the element.
querySelector(rootEl) == rootEl.attached /\ <<"id", "mdText">> \in rootEl.attrs

\* Variant: morphdom without childrenOnly also morphs the root's attributes.
morphRootToo(rootEl, toEl) == [rootEl EXCEPT !.attrs = toEl.attrs]

\* childrenOnly: true: morphdom neither replaces the root element nor
\* passes it to onBeforeElUpdated / morphAttrs.
morphRoot(rootEl, toEl) == rootEl

\* received.uri: undefined for a message without the field.
uriOf(msg) == IF "uri" \in DOMAIN msg THEN msg.uri ELSE NoDoc

\* A document message carrying the rendering h.
TextMsg(h) == [action |-> "update", text |-> h, uri |-> "A"]

\* Variant: only an "update" message is reconciled; any other action
\* clears the page.
messageHtmlUpdateOnly(msg) == IF msg.action = "update" THEN msg.text ELSE <<>>

\* The HTML handed to morphdom: "<div>" + received.text + "<div>" reads the
\* text field and nothing else of the message.
messageHtml(msg) == msg.text

\* ws.onmessage: received = JSON.parse(e.data); reconcile, then request a
\* render for every diagram block.  When #mdText cannot be found, morphdom
\* throws on the null node and the handler ends there.
OnMessage(msg) ==
    LET html == messageHtml(msg)
    IN  IF querySelector(root)
        THEN \E r \in {morphdom(tree, html)} :
             \E p \in {requestAll(getElementsByClassName(r.kids, "language-graphviz"), pending)} :
             /\ BagCardinality(p) <= MaxPending
             /\ tree' = renameTree(r.kids)
             /\ received' = html
             /\ pending' = renamePending(p, r.kids)
             /\ root' = morphRoot(root, toElement(wrap(html)))
             /\ pass' = [op |-> "message", repeat |-> (html = received),
                         muts |-> r.muts, scrolled |-> r.scrolled, was |-> docOrder(r.kids),
                         had |-> nodeCount(tree), req |-> NoRequest, unhandled |-> FALSE]
             /\ UNCHANGED serverVars
        ELSE /\ received' = html
             /\ pass' = [op |-> "message", repeat |-> (html = received),
                         muts |-> 0, scrolled |-> <<>>, was |-> docOrder(tree),
                         had |-> nodeCount(tree), req |-> NoRequest, unhandled |-> TRUE]
             /\ UNCHANGED <<tree, pending, root>>
             /\ UNCHANGED serverVars

\* A render promise fulfils: the .then callback sets width and replaces the
\* captured element's parent.  The parent of a child of #mdText is #mdText
\* itself, which replaceWith then takes out of the document (its children
\* stay with it); replaceWith on a node without a parent does nothing.
RenderDone(r) ==
    LET newEl == Node(firstFree(tree), "svg",
                      {<<"width", "100%">>}, r.src, <<>>)
        t2    == replaceParentOf(tree, r.el, newEl)
        ofRoot == \E i \in DOMAIN tree : tree[i].id = r.el
    IN  /\ BagIn(r, pending)
        /\ tree' = renameTree(t2)
        /\ pending' = renamePending(pending (-) SetToBag({r}), t2)
        /\ root' = IF ofRoot THEN [root EXCEPT !.attached = FALSE] ELSE root
        /\ pass' = [op |-> "fulfilled", repeat |-> FALSE,
                    muts |-> (IF t2 # tree \/ (ofRoot /\ root.attached) THEN 1 ELSE 0),
                    scrolled |-> <<>>, was |-> docOrder(t2),
                    had |-> nodeCount(tree), req |-> r, unhandled |-> FALSE]
        /\ UNCHANGED <<received>>
        /\ UNCHANGED serverVars

\* A render promise rejects: .then was given no rejection callback and no
\* .catch follows, so the promise .then returned rejects with nobody
\* listening; the try/catch around the loop has long been left.
RenderFail(r) ==
    /\ BagIn(r, pending)
    /\ pending' = pending (-) SetToBag({r})
    /\ pass' = [op |-> "rejected", repeat |-> FALSE, muts |-> 0, scrolled |-> <<>>,
                was |-> docOrder(tree), had |-> nodeCount(tree), req |-> r, unhandled |-> TRUE]
    /\ UNCHANGED <<tree, received, root>>
    /\ UNCHANGED serverVars

----------------------------------------------------------------------------
(* Server: Focus Tracker and Render-and-Broadcast Dispatcher                *)

\* documents.get(uri)?.getText()
documentsGet(uri) == IF uri \in URIs THEN documents[uri] ELSE NoDoc

\* Variant: the raw source is sent instead of its rendering.
UpdateMsgRawSource(uri, text) ==
    [action |-> "update", text |-> text, uri |-> uri]

\* JSON.stringify({action, text, uri}) of a document event.
UpdateMsg(uri, text) ==
    [action |-> "update", text |-> mdRender(text), uri |-> uri]

\* JSON.stringify({action, text}) of the connection handler.
ConnectMsg(text) == [action |-> "update", text |-> mdRender(text)]

NoOut == [c \in Viewers |-> <<>>]

\* client.send(data): ws queues the frame on an OPEN socket; on a socket that
\* is CLOSING it drops the data without throwing (no callback is passed).
send(cs, c, m) == IF cs[c] = "OPEN" THEN <<m>> ELSE <<>>

\* Variant: send throws on a socket that is not open, which ends the loop.
broadcastStopsAtClosing(cs, sentSoFar, m) ==
    IF \E c \in Viewers : cs[c] = "CLOSING"
    THEN [sent |-> sentSoFar, threw |-> TRUE]
    ELSE [sent  |-> [c \in Viewers |->
                       sentSoFar[c] \o (IF cs[c] = "NONE" THEN <<>> ELSE send(cs, c, m))],
          threw |-> FALSE]

\* wss.clients.forEach((client) => client.send(...)): what each socket has
\* been given once the loop is over (appended to what the same notification
\* already sent), and whether the loop threw.
broadcast(cs, sentSoFar, m) ==
    [sent  |-> [c \in Viewers |->
                  sentSoFar[c] \o (IF cs[c] = "NONE" THEN <<>> ELSE send(cs, c, m))],
     threw |-> FALSE]

\* documents.onDidOpen handler: the new focus, the messages sent, and
\* whether the handler threw.
onDidOpen(uri, text, sentSoFar) ==
    LET b == broadcast(clients, sentSoFar, UpdateMsg(uri, text))
    IN  [focus |-> uri, sent |-> b.sent, threw |-> b.threw]

\* Variant: the change handler broadcasts but leaves currentFocus alone.
onDidChangeContentKeepsFocus(uri, text, sentSoFar) ==
    LET b == broadcast(clients, sentSoFar, UpdateMsg(uri, text))
    IN  [focus |-> currentFocus, sent |-> b.sent, threw |-> b.threw]

\* documents.onDidChangeContent handler.
onDidChangeContent(uri, text, sentSoFar) ==
    LET b == broadcast(clients, sentSoFar, UpdateMsg(uri, text))
    IN  [focus |-> uri, sent |-> b.sent, threw |-> b.threw]

\* documents.onDidClose handler: only the settings cache is touched.
onDidClose(uri, focus) == [focus |-> focus]

\* textDocument/didOpen: the document manager stores the document and fires
\* onDidOpen and then onDidChangeContent ("emitted when the text document
\* first opened or when its content has changed").
DidOpenTextDocument(uri, text) ==
    /\ documents[uri] = NoDoc
    /\ documents' = [documents EXCEPT ![uri] = text]
    /\ LET o == onDidOpen(uri, text, NoOut)
           c == onDidChangeContent(uri, text, o.sent)
       IN  /\ currentFocus' = c.focus
           /\ out' = c.sent
           /\ ev' = [kind |-> "open", arg |-> uri, threw |-> o.threw \/ c.threw]
    /\ lastWrite' = uri
    /\ UNCHANGED <<clients, tree, received, pending, pass, root>>

\* textDocument/didChange: the stored text is replaced and onDidChangeContent fires.
DidChangeTextDocument(uri, text) ==
    /\ documents[uri] # NoDoc
    /\ documents' = [documents EXCEPT ![uri] = text]
    /\ LET c == onDidChangeContent(uri, text, NoOut)
       IN  /\ currentFocus' = c.focus
           /\ out' = c.sent
           /\ ev' = [kind |-> "change", arg |-> uri, threw |-> c.threw]
    /\ lastWrite' = uri
    /\ UNCHANGED <<clients, tree, received, pending, pass, root>>

\* textDocument/didClose: the document leaves the map and onDidClose fires.
DidCloseTextDocument(uri) ==
    /\ documents[uri] # NoDoc
    /\ documents' = [documents EXCEPT ![uri] = NoDoc]
    /\ currentFocus' = onDidClose(uri, currentFocus).focus
    /\ out' = NoOut
    /\ ev' = [kind |-> "close", arg |-> uri, threw |-> FALSE]
    /\ UNCHANGED <<clients, lastWrite, tree, received, pending, pass, root>>

\* Variant: the connection handler sends its message to every client.
connectionBroadcasts(c, text) ==
    IF text = NoDoc
    THEN [threw |-> TRUE, sent |-> NoOut]
    ELSE [threw |-> FALSE,
          sent |-> broadcast([clients EXCEPT ![c] = "OPEN"], NoOut, ConnectMsg(text)).sent]

\* Variant: the connection handler sends nothing.
connectionSendsNothing(c, text) ==
    [threw |-> text = NoDoc, sent |-> NoOut]

\* wss.on("connection"): the socket is already in wss.clients when the
\* handler runs; md.render throws on input that is not a string.
connection(c, text) ==
    IF text = NoDoc
    THEN [threw |-> TRUE, sent |-> NoOut]
    ELSE [threw |-> FALSE,
          sent |-> [NoOut EXCEPT ![c] = send([clients EXCEPT ![c] = "OPEN"], c, ConnectMsg(text))]]

Connection(c) ==
    /\ clients[c] = "NONE"
    /\ clients' = [clients EXCEPT ![c] = "OPEN"]
    /\ LET r == connection(c, documentsGet(currentFocus))
       IN  /\ out' = r.sent
           /\ ev' = [kind |-> "connection", arg |-> c, threw |-> r.threw]
    /\ UNCHANGED <<documents, currentFocus, lastWrite, tree, received, pending, pass, root>>

\* A viewer's socket starts its closing handshake: it stays in wss.clients.
StartClose(c) ==
    /\ clients[c] = "OPEN"
    /\ clients' = [clients EXCEPT ![c] = "CLOSING"]
    /\ out' = NoOut
    /\ ev' = [kind |-> "closing", arg |-> c, threw |-> FALSE]
    /\ UNCHANGED <<documents, currentFocus, lastWrite, tree, received, pending, pass, root>>

\* The socket's 'close' event removes it from wss.clients.
Closed(c) ==
    /\ clients[c] \in {"OPEN", "CLOSING"}
    /\ clients' = [clients EXCEPT ![c] = "NONE"]
    /\ out' = NoOut
    /\ ev' = [kind |-> "closed", arg |-> c, threw |-> FALSE]
    /\ UNCHANGED <<documents, currentFocus, lastWrite, tree, received, pending, pass, root>>

ServerInit ==
    /\ documents = [u \in URIs |-> NoDoc]
    /\ currentFocus = NoFocus
    /\ clients = [c \in Viewers |-> "NONE"]
    /\ out = NoOut
    /\ ev = [kind |-> "init", arg |-> "", threw |-> FALSE]
    /\ lastWrite = NoFocus

ViewInit ==
    /\ tree = InitialTree
    /\ received = NoDoc
    /\ pending = EmptyBag
    /\ root = InitialRoot
    /\ pass = [op |-> "init", repeat |-> FALSE, muts |-> 0, scrolled |-> <<>>,
               was |-> docOrder(InitialTree), had |-> 0, req |-> NoRequest, unhandled |-> FALSE]

Init == ServerInit /\ ViewInit /\ wire = <<>> /\ handled = <<NoDoc, NoDoc>>

Next ==
    \/ \E u \in URIs, t \in DocTexts : DidOpenTextDocument(u, t) /\ UNCHANGED <<wire, handled>>
    \/ \E u \in URIs, t \in DocTexts : DidChangeTextDocument(u, t) /\ UNCHANGED <<wire, handled>>
    \/ \E u \in URIs : DidCloseTextDocument(u) /\ UNCHANGED <<wire, handled>>
    \/ \E c \in Viewers : Connection(c) /\ UNCHANGED <<wire, handled>>
    \/ \E c \in Viewers : StartClose(c) /\ UNCHANGED <<wire, handled>>
    \/ \E c \in Viewers : Closed(c) /\ UNCHANGED <<wire, handled>>

Spec == Init /\ [][Next]_vars

ViewNext ==
    \/ \E h \in Htmls : OnMessage(TextMsg(h)) /\ UNCHANGED <<wire, handled>>
    \/ \E r \in BagToSet(pending) : RenderDone(r) /\ UNCHANGED <<wire, handled>>
    \/ \E r \in BagToSet(pending) : RenderFail(r) /\ UNCHANGED <<wire, handled>>

ViewSpec == Init /\ [][ViewNext]_vars

\* The viewer when every requested render succeeds.
UpgradeNext ==
    \/ \E h \in Htmls : OnMessage(TextMsg(h)) /\ UNCHANGED <<wire, handled>>
    \/ \E r \in BagToSet(pending) : RenderDone(r) /\ UNCHANGED <<wire, handled>>

UpgradeSpec == Init /\ [][UpgradeNext]_vars

\* The reconciler alone, over renderings with open / closed elements.
ReconNext == \E h \in ReconHtmls : OnMessage(TextMsg(h)) /\ UNCHANGED <<wire, handled>>

ReconSpec == Init /\ [][ReconNext]_vars

\* The page fed whole messages: any action, any uri, a page of one item.
Messages ==
    {[action |-> a, text |-> concat(q), uri |-> u] :
        a \in {"update", "reload"}, u \in URIs,
        q \in {<<>>} \cup {<<x>> : x \in ReconItems}}

MessageNext ==
    \E m \in Messages :
        OnMessage(m) /\ handled' = <<handled[2], uriOf(m)>> /\ UNCHANGED wire

MessageSpec == Init /\ [][MessageNext]_vars

----------------------------------------------------------------------------
(* Server and one viewer page, joined by the viewer's socket               *)

Observed == "v1"

\* Variant: the page handles the newest message in flight first.
arrivalNewestFirst(w) == [msg |-> w[Len(w)], rest |-> SubSeq(w, 1, Len(w) - 1)]

\* The socket hands the page its messages in the order they were sent.
arrival(w) == [msg |-> Head(w), rest |-> Tail(w)]

\* What the last handler run sent to the observed viewer goes on the wire.
Transmit ==
    /\ wire' = wire \o out'[Observed]
    /\ Len(wire') <= MaxWire

\* The browser loads the page: a fresh document, and its script opens the
\* socket (the page never reconnects by itself).
PageLoad ==
    /\ clients[Observed] = "NONE"
    /\ pass.op # "init"
    /\ tree' = InitialTree
    /\ received' = NoDoc
    /\ pending' = EmptyBag
    /\ root' = InitialRoot
    /\ pass' = [op |-> "init", repeat |-> FALSE, muts |-> 0, scrolled |-> <<>>,
                was |-> docOrder(InitialTree), had |-> 0, req |-> NoRequest, unhandled |-> FALSE]
    /\ wire' = <<>>
    /\ UNCHANGED serverVars

\* Texts the editor sends in the joined specification.
PipeTexts == {<<Paragraph("a")>>, <<Fence("graphviz", "g1")>>}

PipeNext ==
    \/ \E u \in URIs, t \in PipeTexts : DidOpenTextDocument(u, t) /\ Transmit /\ UNCHANGED handled
    \/ \E u \in URIs, t \in PipeTexts : DidChangeTextDocument(u, t) /\ Transmit /\ UNCHANGED handled
    \/ \E u \in URIs : DidCloseTextDocument(u) /\ Transmit /\ UNCHANGED handled
    \/ pass.op = "init" /\ Connection(Observed) /\ Transmit /\ UNCHANGED handled
    \/ StartClose(Observed) /\ Transmit /\ UNCHANGED handled
    \/ Closed(Observed) /\ wire' = <<>> /\ UNCHANGED handled
    \/ PageLoad /\ UNCHANGED handled
    \/ wire # <<>> /\ OnMessage(arrival(wire).msg) /\ wire' = arrival(wire).rest /\ UNCHANGED handled
    \/ \E r \in BagToSet(pending) : RenderDone(r) /\ UNCHANGED <<wire, handled>>
    \/ \E r \in BagToSet(pending) : RenderFail(r) /\ UNCHANGED <<wire, handled>>

PipeSpec == Init /\ [][PipeNext]_vars

----------------------------------------------------------------------------
(* Properties of the server                                                 *)

DocEvent == ev.kind \in {"open", "change"}

\* C1: after any sequence of events, currentFocus is the uri of the most
\* recent document-open or document-change event (last write wins).
C1_FocusIsLastWrite == currentFocus = lastWrite

\* open(A), open(B), change(A) in some order have happened and Focus is A.
C1_Witness ==
    /\ ev.kind = "change" /\ ev.arg = "A"
    /\ documents["B"] # NoDoc
    /\ currentFocus = "A"

\* C2: a document-open or document-change event sends, to every viewer
\* connected at that moment, messages whose uri is the event's uri and whose
\* text is the rendering of that document's text (not the raw source).
C2_BroadcastCarriesRendering ==
    DocEvent =>
        \A c \in Viewers : clients[c] = "OPEN" =>
            /\ out[c] # <<>>
            /\ \A i \in DOMAIN out[c] :
                  /\ out[c][i].uri = ev.arg
                  /\ out[c][i].text = mdRender(documents[ev.arg])
                  /\ out[c][i].text # documents[ev.arg]

C2_Witness ==
    /\ DocEvent
    /\ \A c \in Viewers : clients[c] = "OPEN" /\ out[c] # <<>>

\* C3 (as claimed): closing the focused document empties Focus; closing
\* another document leaves Focus unchanged.
C3_CloseClearsFocus ==
    [][\A u \in URIs :
          (documents[u] # NoDoc /\ documents'[u] = NoDoc) =>
              currentFocus' = (IF currentFocus = u THEN NoFocus ELSE currentFocus)]_vars

\* C4 (as claimed): a non-empty Focus is the uri of a document that is open.
C4_FocusIsOpen == currentFocus # NoFocus => documentsGet(currentFocus) # NoDoc

\* C5 (as claimed): a viewer is sent nothing at connect time.
C5_NoBackfill ==
    [][\A c \in Viewers :
          (clients[c] = "NONE" /\ clients'[c] = "OPEN") => out'[c] = <<>>]_vars

\* C5 (amended): a viewer that connects while Focus names an open document
\* is sent exactly one message at connect time, the rendering of the focused
\* document's stored text; it is sent nothing at connect time only when
\* Focus names no open document.
C5_ConnectBackfill ==
    [][\A c \in Viewers :
          (clients[c] = "NONE" /\ clients'[c] = "OPEN") =>
              out'[c] = (IF documentsGet(currentFocus) = NoDoc THEN <<>>
                         ELSE <<[action |-> "update",
                                 text |-> mdRender(documentsGet(currentFocus))]>>)]_vars

C5_Witness ==
    /\ ev.kind = "connection"
    /\ documentsGet(currentFocus) # NoDoc
    /\ Len(out[ev.arg]) = 1

\* C6 (as claimed): every message sent carries action "update", text and uri.
C6_ThreeFields ==
    \A c \in Viewers : \A i \in DOMAIN out[c] :
        /\ DOMAIN out[c][i] = {"action", "text", "uri"}
        /\ out[c][i].action = "update"

\* C7 (as claimed): no handler run raises an error.
C7_NoHandlerThrows == ~ev.threw

\* C8: when a broadcast meets a viewer whose socket is closing, the message
\* still reaches every open viewer and the document handler does not throw.
C8_DeliveryIsIndependent ==
    (DocEvent /\ \E d \in Viewers : clients[d] = "CLOSING") =>
        /\ ~ev.threw
        /\ \A c \in Viewers : clients[c] = "OPEN" =>
              \E i \in DOMAIN out[c] :
                  out[c][i] = [action |-> "update",
                               text |-> mdRender(documents[ev.arg]),
                               uri |-> ev.arg]

C8_Witness ==
    /\ DocEvent
    /\ \E d \in Viewers : clients[d] = "CLOSING" /\ out[d] = <<>>
    /\ \E c \in Viewers : clients[c] = "OPEN" /\ out[c] # <<>>

----------------------------------------------------------------------------
(* Properties of the viewer                                                 *)

\* A top-level block of rendered HTML that holds a diagram-source element.
isDiagramBlock(n) == getElementsByClassName(n.kids, "language-graphviz") # <<>>

\* C9 (as claimed): reconciling the same HTML a second time, whether or not
\* the renders requested by the first application have completed in
\* between, mutates nothing and scrolls nothing.
C9_Idempotent ==
    (pass.op = "message" /\ pass.repeat) => (pass.muts = 0 /\ pass.scrolled = <<>>)

\* C10 (as claimed): once no render is in flight, a graphic in the live tree
\* stands at a diagram position of the most recently reconciled message and
\* was rendered from that message's source for the position.
C10_NoStaleGraphic ==
    (received # NoDoc /\ pending = EmptyBag) =>
        \A i \in DOMAIN tree :
            tree[i].tag = "svg" =>
                /\ i \in DOMAIN parsedT[received]
                /\ isDiagramBlock(parsedT[received][i])
                /\ tree[i].value = textContent(parsedT[received][i])

\* C11 (as claimed): a render completion replaces only a block that still is
\* a diagram-source block holding the source the render was requested for: a
\* graphic appears at a position only where the block that stood there held
\* a diagram-source element whose text is the graphic's source.  (A message
\* never leaves a graphic in the tree, so a graphic that appears was put
\* there by a completion.)
C11_CompletionOnlyOwnBlock ==
    [][\A i \in DOMAIN tree' :
          (i \in DOMAIN tree /\ tree'[i].tag = "svg" /\ tree[i].tag # "svg") =>
              /\ isDiagramBlock(tree[i])
              /\ textContent(tree[i]) = tree'[i].value]_vars

\* The counterpart of the j-th node of the live tree after a message: the
\* j-th node parsed from the message's HTML (the reconciled tree has the
\* shape of the parsed one).
counterpart(j) == nodesOf(parsedT[received])[j]

\* C12: a live element that bears open and is kept by a reconciliation
\* still bears open afterwards, whatever its counterpart says; a live
\* element without open that is kept ends with open exactly when its
\* counterpart has it (the override never removes or withholds open).
C12_OpenIsSticky ==
    [][pass'.op = "message" =>
          \A j \in DOMAIN pass'.was :
              LET k == pass'.was[j]
              IN  k <= nodeCount(tree) =>
                      LET E  == nodesOf(tree)[k]
                          E2 == nodesOf(tree')[j]
                      IN  IF hasAttribute(E, "open")
                          THEN hasAttribute(E2, "open")
                          ELSE hasAttribute(E2, "open") <=> hasAttribute(counterpart(j)', "open")]_vars

\* An element of the live tree bears open although its counterpart in the
\* last reconciled message lacks it.
C12_Witness ==
    /\ pass.op = "message"
    /\ \E j \in DOMAIN nodesOf(tree) :
          /\ hasAttribute(nodesOf(tree)[j], "open")
          /\ ~hasAttribute(counterpart(j), "open")

\* C13: after any number of reconciliations and render completions, in any
\* order, #mdText is the element the page started with (same attributes, so
\* the same selector finds it) and is still in the document.
C13_RootIsStable == root = InitialRoot

\* A reconciliation has filled the tree and a completion has then replaced a
\* block of it.
C13_Witness ==
    /\ pass.op = "fulfilled"
    /\ pass.muts = 1
    /\ \E i \in DOMAIN tree : tree[i].tag = "svg"
    /\ root.attached

\* The live tree shows exactly the rendering html: node for node equal to
\* what the parser makes of it.
showsExactly(t, html) ==
    /\ Len(t) = Len(parsedT[html])
    /\ \A i \in DOMAIN t : isEqualNode(t[i], parsedT[html][i])

without(t, i) == SubSeq(t, 1, i - 1) \o SubSeq(t, i + 1, Len(t))

\* C14 (as claimed): when the tree shows a text and the next message is that
\* text with one block omitted, the reconciliation removes the nodes of an
\* omitted block (its element and the line break after it) and leaves every
\* other node in place, unchanged.
C14_DeletionIsExact ==
    [][\A t \in ViewTexts :
          ( /\ received # NoDoc
            /\ mdRender(t) = received
            /\ showsExactly(tree, received)
            /\ pass'.op = "message"
            /\ received' # received
            /\ \E i \in DOMAIN t : received' = mdRender(without(t, i)) )
          => \E i \in DOMAIN t :
                 /\ received' = mdRender(without(t, i))
                 /\ LET kept == SubSeq(tree, 1, 2 * i - 2) \o SubSeq(tree, 2 * i + 1, Len(tree))
                    IN  /\ tree' = renameTree(kept)
                        /\ pass'.was = docOrder(kept)]_vars

\* C15: once the renders requested for the last reconciled message have
\* fulfilled and no further message has arrived, every diagram position of
\* that message holds a graphic with width 100%, and no diagram-source
\* element is left in the live tree.
C15_DiagramReplaced ==
    (received # NoDoc /\ pending = EmptyBag) =>
        /\ \A i \in DOMAIN parsedT[received] :
              isDiagramBlock(parsedT[received][i]) =>
                  /\ i \in DOMAIN tree
                  /\ tree[i].tag = "svg"
                  /\ <<"width", "100%">> \in tree[i].attrs
        /\ getElementsByClassName(tree, "language-graphviz") = <<>>

\* The last message had a diagram block, its render has fulfilled and
\* nothing is in flight.
C15_Witness ==
    /\ received # NoDoc
    /\ pending = EmptyBag
    /\ pass.op = "fulfilled"
    /\ pass.req.el # Detached
    /\ \E i \in DOMAIN parsedT[received] : isDiagramBlock(parsedT[received][i])

\* The render a diagram-source element of the live tree asks for.
requestFor(e) == [el |-> e.id, src |-> textContent(e)]

diagramElements(t) ==
    LET els == getElementsByClassName(t, "language-graphviz")
    IN  {els[i] : i \in DOMAIN els}

containsId(n, id) == \E k \in DOMAIN docOrder(<<n>>) : docOrder(<<n>>)[k] = id

\* C16: a pass requests a render for every diagram block, whatever becomes
\* of the others; a render that settles takes only itself out of the renders
\* in flight; a rejection changes nothing in the tree; a fulfilment whose
\* element is in the tree replaces the block that holds the element with
\* its graphic and leaves every other block as it was.
C16_RendersIndependent ==
    [][/\ pass'.op = "message" =>
             \A e \in diagramElements(tree') : BagIn(requestFor(e), pending')
       /\ BagCardinality(pending') < BagCardinality(pending) =>
             LET r == pass'.req
             IN  /\ BagCardinality(pending') = BagCardinality(pending) - 1
                 /\ BagIn(r, pending)
                 /\ pass'.op = "rejected" => tree' = tree
                 /\ (pass'.op = "fulfilled" /\ r.el = Detached) => tree' = tree
                 /\ (pass'.op = "fulfilled" /\ r.el # Detached) =>
                       /\ Len(tree') = Len(tree)
                       /\ \E i \in DOMAIN tree :
                             /\ containsId(tree[i], r.el)
                             /\ tree'[i].tag = "svg"
                             /\ tree'[i].value = r.src
                             /\ \A j \in DOMAIN tree \ {i} : isEqualNode(tree'[j], tree[j])]_vars

\* One block's render has fulfilled and replaced its block while another
\* diagram block of the same pass is still waiting for its render.
C16_Witness ==
    /\ pass.op = "fulfilled"
    /\ pass.req.el # Detached
    /\ \E i \in DOMAIN tree : tree[i].tag = "svg"
    /\ \E e \in diagramElements(tree) : BagIn(requestFor(e), pending)

\* C17 (as claimed): a render that rejects is caught by the page's handler
\* and does not surface as an unhandled error.
C17_FailureIsCaught == pass.op = "rejected" => ~pass.unhandled

\* C18: once every message sent to a viewer that is still connected has
\* been handled by its page, in the order sent, the page has last reconciled
\* against the rendering of the focused document's current text.
C18_Converged ==
    ( /\ clients[Observed] = "OPEN"
      /\ wire = <<>>
      /\ documentsGet(currentFocus) # NoDoc )
    => /\ received # NoDoc
       /\ received = mdRender(documentsGet(currentFocus))

\* Two documents have been written, the older text of the focused one and
\* the other document's rendering have both been superseded, and the
\* connected page has caught up.
C18_Witness ==
    /\ clients[Observed] = "OPEN"
    /\ wire = <<>>
    /\ ev.kind = "change"
    /\ \A u \in URIs : documents[u] # NoDoc
    /\ documents["A"] # documents["B"]
    /\ received = mdRender(documentsGet(currentFocus))
    /\ pass.op = "message"
    /\ ~pass.repeat

\* The page displays no document content: at most line breaks and the empty
\* trailing element the wrapper leaves.
showsNothing(t) ==
    \A k \in DOMAIN nodesOf(t) :
        LET n == nodesOf(t)[k]
        IN  \/ n.tag = "#text" /\ n.value = "\n"
            \/ n.tag = "DIV" /\ n.kids = <<>>

\* C19 (as claimed): after the focused document is closed while no other
\* document is open, Focus is empty and a connected viewer that has handled
\* everything sent to it displays nothing.
C19_ClosedShowsNothing ==
    ( /\ ev.kind = "close"
      /\ ev.arg = lastWrite
      /\ \A u \in URIs : documents[u] = NoDoc
      /\ clients[Observed] = "OPEN"
      /\ wire = <<>> )
    => /\ currentFocus = NoFocus
       /\ showsNothing(tree)

\* For each node of a forest, in document order, the document-order index
\* of its parent (p for the roots; k is the index of the first root).
RECURSIVE parentsOf(_, _, _)
parentsOf(ks, p, k) ==
    IF ks = <<>> THEN <<>>
    ELSE <<p>> \o parentsOf(Head(ks).kids, k, k + 1)
         \o parentsOf(Tail(ks), p, k + size(Head(ks)))

\* The counterpart as the equality test sees it.
withOpenOf(toEl, fromEl) ==
    IF hasAttribute(fromEl, "open") THEN setAttribute(toEl, "open", "true") ELSE toEl

\* C20: in one pass, an element that was in the tree and is visited (it is
\* a child of #mdText or of an element that was updated) is scrolled and
\* given its counterpart's attributes exactly when it differs from the
\* counterpart with the open override applied; when it is equal it is not
\* scrolled and neither it nor anything below it is changed or scrolled;
\* every added element is scrolled and no text node ever is.
C20_ScrollIffChanged ==
    [][pass'.op = "message" =>
          LET was    == pass'.was
              sc     == {pass'.scrolled[i] : i \in DOMAIN pass'.scrolled}
              before == nodesOf(tree)
              after  == nodesOf(tree')
              par    == parentsOf(tree', 0, 1)
          IN  /\ sc \subseteq {was[j] : j \in DOMAIN was}
              /\ \A a, b \in DOMAIN pass'.scrolled :
                     pass'.scrolled[a] = pass'.scrolled[b] => a = b
              /\ \A j \in DOMAIN was :
                     IF was[j] > pass'.had
                     THEN was[j] \in sc <=> IsElement(after[j])
                     ELSE IF ~IsElement(before[was[j]])
                     THEN was[j] \notin sc
                     ELSE LET E       == before[was[j]]
                              cp      == withOpenOf(counterpart(j)', E)
                              visited == par[j] = 0 \/ was[par[j]] \in sc
                          IN  IF visited /\ ~isEqualNode(E, cp)
                              THEN was[j] \in sc /\ after[j].attrs = cp.attrs
                              ELSE was[j] \notin sc /\ isEqualNode(after[j], E)]_vars

\* A pass that updated and scrolled an element whose counterpart lacked
\* open, kept an equal element without scrolling it, and added an element
\* and a text node.
C20_Witness ==
    /\ pass.op = "message"
    /\ \E j \in DOMAIN pass.was :
          /\ pass.was[j] \in {pass.scrolled[i] : i \in DOMAIN pass.scrolled}
          /\ hasAttribute(nodesOf(tree)[j], "open")
          /\ ~hasAttribute(counterpart(j), "open")
    /\ \E j \in DOMAIN pass.was :
          /\ IsElement(nodesOf(tree)[j])
          /\ nodesOf(tree)[j].tag # "DIV"
          /\ pass.was[j] \notin {pass.scrolled[i] : i \in DOMAIN pass.scrolled}
    /\ \E j \in DOMAIN pass.was :
          /\ pass.was[j] > pass.had
          /\ pass.was[j] \in {pass.scrolled[i] : i \in DOMAIN pass.scrolled}
    /\ \E j \in DOMAIN pass.was :
          /\ pass.was[j] > pass.had
          /\ ~IsElement(nodesOf(tree)[j])

\* C21: a pass adds exactly one render request for each diagram-source
\* element that is in the tree when the pass ends, on top of whatever is
\* already in flight for that element and source, so requests for one block
\* pile up.
C21_OneRequestPerBlockPerPass ==
    [][pass'.op = "message" =>
          /\ BagCardinality(pending') =
                 BagCardinality(pending) + Cardinality(diagramElements(tree'))
          /\ \A e \in diagramElements(tree') :
                 LET old == pass'.was[e.id]
                 IN  CopiesIn(requestFor(e), pending') =
                         1 + (IF old <= pass'.had
                              THEN CopiesIn([el |-> old, src |-> textContent(e)], pending)
                              ELSE 0)]_vars

\* A pass has just ended and two renders are in flight for the same block
\* with the same source.
C21_Witness ==
    /\ pass.op = "message"
    /\ pass.repeat
    /\ \E e \in diagramElements(tree) : CopiesIn(requestFor(e), pending) >= 2

\* C22: a connection made while Focus names an open document sends one
\* message, to the connecting viewer only, with the rendering of the focused
\* document's stored text; the other viewers are sent nothing and keep
\* their sockets' state, and Focus and the document map stay as they were.
C22_ConnectionIsLocal ==
    [][\A c \in Viewers :
          ( /\ clients[c] = "NONE"
            /\ clients'[c] = "OPEN"
            /\ documentsGet(currentFocus) # NoDoc )
          => /\ Len(out'[c]) = 1
             /\ out'[c][1].text = mdRender(documentsGet(currentFocus))
             /\ \A d \in Viewers \ {c} : out'[d] = <<>> /\ clients'[d] = clients[d]
             /\ currentFocus' = currentFocus
             /\ documents' = documents]_vars

\* A viewer has connected while another one was already connected and the
\* focused document was open.
C22_Witness ==
    /\ ev.kind = "connection"
    /\ ~ev.threw
    /\ documentsGet(currentFocus) # NoDoc
    /\ out[ev.arg] # <<>>
    /\ \E d \in Viewers \ {ev.arg} : clients[d] = "OPEN"

\* What reconciling message m against the tree t leaves and scrolls.
outcome(t, m) ==
    LET r == morphdom(t, messageHtml(m))
    IN  [kids |-> r.kids, scrolled |-> r.scrolled]

\* C23: against any live tree, a message gives the same tree and the same
\* scroll calls as the plain update message with the same text, whatever
\* its action and uri; and when the page handles a message for another
\* document than the one before, the first child is kept when the tags
\* agree and every kept element that bore open still does.
C23_OnlyTextMatters ==
    [][/\ \A m \in Messages : outcome(tree, m) = outcome(tree, TextMsg(m.text))
       /\ (handled'[1] # NoDoc /\ handled'[2] # handled'[1]) =>
             /\ ( /\ tree # <<>>
                  /\ IsElement(tree[1])
                  /\ tree[1].tag = counterpart(1)'.tag )
                => pass'.was[1] = tree[1].id
             /\ \A j \in DOMAIN pass'.was :
                    ( /\ pass'.was[j] <= pass'.had
                      /\ hasAttribute(nodesOf(tree)[pass'.was[j]], "open") )
                    => hasAttribute(nodesOf(tree')[j], "open")]_vars

\* The page showed one document with its first element open, then handled
\* a message for another document whose first element of the same tag is
\* closed: the node was kept and is still open.
C23_Witness ==
    /\ handled[1] # NoDoc
    /\ handled[2] # handled[1]
    /\ pass.op = "message"
    /\ pass.was[1] = 1
    /\ hasAttribute(tree[1], "open")
    /\ ~hasAttribute(counterpart(1), "open")

====
